---- MODULE Spec2Model ----
(***************************************************************************)
(* The read-side query composition of main.py: the Field Selector, the     *)
(* building-detail endpoint, the component-info lookup, the material       *)
(* volume aggregations and the uniform handling of executor failures.      *)
(*                                                                         *)
(* The graph store is an external collaborator; it is chosen in Init and   *)
(* never changes.  Every endpoint is one action that records the request   *)
(* and the response; the previous request/response pair is kept so that    *)
(* two calls with the same parameters can be compared.                     *)
(*                                                                         *)
(* Strings on which the code performs string operations are sequences of   *)
(* atoms.  The literal "buildingClass" is one atom: no other atom is part  *)
(* of it, so prefix tests and replace() on the literal are exact on atoms. *)
(***************************************************************************)
EXTENDS Integers, Sequences, FiniteSets, TLC

VARIABLES store, req, exec, resp, prevReq, prevResp

vars == <<store, req, exec, resp, prevReq, prevResp>>

\* ------------------------------------------------------------------ bounds
MaxFieldLen == 3      \* longest cat_fields string, in atoms
MaxTailLen == 2       \* longest tail after the buildingClass prefix, in atoms
MaxVolume == 2        \* largest value_m3 of a quantitative property

\* ------------------------------------------------------------- JSON values
JNull == [t |-> "null"]
JInt(i) == [t |-> "int", v |-> i]
JStr(s) == [t |-> "str", v |-> s]
JMap(m) == [t |-> "map", v |-> m]
JList(l) == [t |-> "list", v |-> l]

EmptyMap == [k \in {} |-> JNull]

\* Python truthiness: None, "", 0, {} and [] are falsy.
Truthy(j) ==
  CASE j.t = "null" -> FALSE
    [] j.t = "int" -> j.v # 0
    [] j.t = "map" -> DOMAIN j.v # {}
    [] OTHER -> j.v # <<>>

\* All sequences over S of length at most n.
SeqsUpTo(S, n) == UNION {[1..k -> S] : k \in 0..n}

Range(f) == {f[i] : i \in DOMAIN f}

RECURSIVE Flatten(_)
Flatten(ss) == IF ss = <<>> THEN <<>> ELSE Head(ss) \o Flatten(Tail(ss))

\* All orderings of a finite set, as sequences without repetition.
Orderings(S) == {f \in [1..Cardinality(S) -> S] : \A e \in S : \E i \in DOMAIN f : f[i] = e}

\* ------------------------------------------------------------ str methods
Space == " "
Comma == ","

RECURSIVE lstrip(_)
lstrip(s) == IF s # <<>> /\ Head(s) = Space THEN lstrip(Tail(s)) ELSE s

RECURSIVE rstrip(_)
rstrip(s) == IF s # <<>> /\ s[Len(s)] = Space THEN rstrip(SubSeq(s, 1, Len(s) - 1)) ELSE s

strip(s) == rstrip(lstrip(s))

\* s.split(","): the pieces between commas, empty pieces included.
RECURSIVE split(_)
split(s) ==
  IF s = <<>> THEN << <<>> >>
  ELSE LET r == split(Tail(s))
       IN  IF Head(s) = Comma THEN << <<>> >> \o r
           ELSE << <<Head(s)>> \o Head(r) >> \o Tail(r)

\* --------------------------------------------------------- Field Selector
None == JNull

\* [x.strip() for x in (s or "").split(",") if x.strip()]
parse_fields(s) ==
  LET items == split(IF s = None THEN <<>> ELSE s.v)
      kept == SelectSeq(items, LAMBDA x : strip(x) # <<>>)
  IN  [i \in DOMAIN kept |-> strip(kept[i])]

\* variant: an empty field list selects everything
pick_props_all_when_empty(props, fields) ==
  IF fields # <<>>
  THEN [k \in {f \in Range(fields) : f \in DOMAIN props} |-> props[k]]
  ELSE props

\* {k: props.get(k) for k in fields if k in props} if fields else {}
pick_props(props, fields) ==
  IF fields # <<>>
  THEN [k \in {f \in Range(fields) : f \in DOMAIN props} |-> props[k]]
  ELSE EmptyMap

\* ------------------------------------------------------------ graph store
Node == {"n1", "n2"}            \* nodes that may be buildings or units
BObj == {"bo1", "bo2"}          \* dice_BuildingObject nodes
Mat == {"m1", "m2"}             \* dice_MaterialEntity nodes
Cat == {"c1", "c2"}             \* Category nodes
NoNode == "none"                \* an OPTIONAL MATCH that bound nothing

OsmIds == {"o1", "o2"}
BuildingIds == {"b1", "b2"}

Key(a) == <<a>>
Str(a) == JStr(<<a>>)
OsmKey == Key("osm_id")

\* coalesce(x, y, z): the first non-null argument, null when all are null.
coalesce3(x, y, z) == IF x # JNull THEN x ELSE IF y # JNull THEN y ELSE z
coalesce2(x, y) == IF x # JNull THEN x ELSE y

\* n.k in Cypher: the property, null when the node has none of that name.
Prop(m, k) == IF k \in DOMAIN m THEN m[k] ELSE JNull

\* OPTIONAL MATCH of a node: one row per match, one row with null when none.
OptionalMatch(S) == IF S = {} THEN {NoNode} ELSE S

\* head(collect(DISTINCT x)) without ORDER BY: null when nothing was collected
\* (collect skips nulls), otherwise whichever value the store yields first.
head_collect(S) == IF S \ {JNull} = {} THEN {JNull} ELSE S \ {JNull}

BaseStore ==
  [ label     |-> [n \in Node |-> IF n = "n1" THEN "dice_BuildingUnit" ELSE "dice_Building"],
    props     |-> [n \in Node |-> IF n = "n1"
                                  THEN (OsmKey :> Str("o1")) @@ (Key("building_id") :> Str("b1"))
                                  ELSE (OsmKey :> Str("o2")) @@ (Key("name") :> Str("Haus"))],
    hasPart   |-> {<<"n2", "n1">>},
    hasProperty |-> [n \in Node |-> {}],   \* names of linked dicv_Property nodes
    hasRole   |-> [n \in Node |-> {}],     \* names of linked dice_Role nodes
    isClassifiedBy |-> {},                 \* <<building, category>>
    hasLocation |-> [n \in Node |-> {}],   \* property maps of linked location nodes
    regulatedBy |-> [n \in Node |-> {}],   \* linked PlanningDocument nodes
    inDistrict |-> [n \in Node |-> {}],    \* names of linked District nodes
    boProps   |-> [b \in BObj |-> EmptyMap],
    hasMaterial |-> {},                    \* <<building object, material>>
    matProps  |-> [m \in Mat |-> EmptyMap],
    boCats    |-> {},                      \* <<building object, category>>
    catProps  |-> [c \in Cat |-> EmptyMap],
    qprops    |-> {} ]                     \* dicv_QuantitativeProperty nodes

\* --------------------------------------------------------------- executor
Neo4jFailure == [kind |-> "Neo4jError", code |-> "Neo.TransientError", message |-> "down"]
OtherFailure == [kind |-> "ServiceUnavailable", code |-> "", message |-> "no route"]
Failures == {Neo4jFailure, OtherFailure}
ExecOk == [kind |-> "ok", code |-> "", message |-> ""]

\* detail of the HTTPException raised by _run_list and _run_single
Detail(e) ==
  IF e.kind = "Neo4jError"
  THEN <<"Neo4jError: ", e.code, "| ", e.message>>
  ELSE <<"Neo4jError: ", e.kind, ": ", e.message>>

\* str(e)
StrOf(e) == <<e.message>>

HTTPException(status, detail) == [status |-> status, body |-> [detail |-> detail]]
Ok200(body) == [status |-> 200, body |-> body]

NoRecord == [none |-> TRUE]

\* variant: a failed round trip is taken for an empty result
run_single_swallow(rows) ==
  {[exec |-> <<ExecOk>>, raised |-> FALSE, rec |-> r] : r \in (IF rows = {} THEN {NoRecord} ELSE rows)}
  \cup {[exec |-> <<e>>, raised |-> FALSE, rec |-> NoRecord] : e \in Failures}

\* _run_single: the outcomes of its one round trip.  rows is the set of
\* records the query can yield; single() takes the first of them, None when
\* there is none; any exception becomes a 503.  exec lists the executor's
\* answers to the round trips made.
run_single(rows) ==
  {[exec |-> <<ExecOk>>, raised |-> FALSE, rec |-> r] : r \in (IF rows = {} THEN {NoRecord} ELSE rows)}
  \cup {[exec |-> <<e>>, raised |-> TRUE, rec |-> HTTPException(503, Detail(e))] : e \in Failures}

\* _run_list: lists is the set of row lists the query can yield.
run_list(lists) ==
  {[exec |-> <<ExecOk>>, raised |-> FALSE, rec |-> l] : l \in lists}
  \cup {[exec |-> <<e>>, raised |-> TRUE, rec |-> HTTPException(503, Detail(e))] : e \in Failures}

\* ------------------------------------------------- get_building: the query
BC == "buildingClass"

\* s STARTS WITH "buildingClass" / s.startswith("buildingClass")
startswith_bc(s) == s # <<>> /\ Head(s) = BC

Labelled(n) == store.label[n] \in {"dice_Building", "dice_BuildingUnit"}

\* MATCH (n {osm_id: $osm_id}) WHERE n:dice_Building OR n:dice_BuildingUnit
MatchOsm(osm_id) == {n \in Node : Labelled(n) /\ Prop(store.props[n], OsmKey) = Str(osm_id)}

\* (n)<-[:dicer_hasPart]-(parent:dice_Building)
Parents(n) == {p \in Node : <<p, n>> \in store.hasPart /\ store.label[p] = "dice_Building"}

\* bc.name STARTS WITH "buildingClass" (a null name never matches)
BcNames(main) == {nm \in store.hasProperty[main] : nm # JNull /\ startswith_bc(nm.v)}

\* cat.Type = "structural_system" AND cat.name IS NOT NULL
StructuralNames(main) ==
  {Prop(store.catProps[c], Key("name")) :
     c \in {x \in Cat : /\ <<main, x>> \in store.isClassifiedBy
                        /\ Prop(store.catProps[x], Key("Type")) = Str("structural_system")
                        /\ Prop(store.catProps[x], Key("name")) # JNull}}

MatName(m) ==
  coalesce3(Prop(store.matProps[m], Key("name")), Prop(store.matProps[m], Key("id")),
            Prop(store.matProps[m], Key("uuid")))

\* [(bo)-[:hasMaterial]->(mm) | coalesce(mm.name, mm.id, mm.uuid)], in the
\* order the store yields the paths
MaterialLists(b) ==
  {[i \in DOMAIN o |-> MatName(o[i])] : o \in Orderings({m \in Mat : <<b, m>> \in store.hasMaterial})}

BoName(b) ==
  coalesce3(Prop(store.boProps[b], Key("name")), Prop(store.boProps[b], Key("id")),
            Prop(store.boProps[b], Key("uuid")))

CompRecord(b, mats) ==
  [ name      |-> BoName(b),
    number    |-> coalesce2(Prop(store.boProps[b], Key("number")), JInt(0)),
    materials |-> mats,
    width_mm  |-> Prop(store.boProps[b], Key("width_mm")),
    height_mm |-> Prop(store.boProps[b], Key("height_mm")),
    length_mm |-> Prop(store.boProps[b], Key("length_mm")) ]

CompChoices(b) == {CompRecord(b, ml) : ml \in MaterialLists(b)}

\* collect(DISTINCT bo) AS bos, then [bo IN bos | {...}] AS componentInfo
ComponentInfos(main) ==
  LET bos == {b \in BObj : <<main, b>> \in store.hasPart}
      all == UNION {CompChoices(b) : b \in bos}
  IN  UNION {{f \in [1..Len(o) -> all] : \A i \in 1..Len(o) : f[i] \in CompChoices(o[i])}
               : o \in Orderings(bos)}

\* variant: the names in reverse order
components_reversed(componentInfo) ==
  [i \in DOMAIN componentInfo |-> componentInfo[Len(componentInfo) + 1 - i].name]

\* [ci IN componentInfo | ci.name] AS components
components_of(componentInfo) == [i \in DOMAIN componentInfo |-> componentInfo[i].name]

\* reduce(xs = [], ci IN componentInfo | xs + ci.materials) AS materialsRaw
materials_of(componentInfo) == Flatten([i \in DOMAIN componentInfo |-> componentInfo[i].materials])

\* variant: without the parent = n test
props_part_no_self_check(n, parent) ==
  IF parent = NoNode THEN JNull ELSE JMap(store.props[n])

\* CASE WHEN parent IS NULL OR parent = n THEN null ELSE properties(n) END
props_part(n, parent) ==
  IF parent = NoNode \/ parent = n THEN JNull ELSE JMap(store.props[n])

\* OPTIONAL MATCH of a node of which only the properties are read: the
\* node is its property map, null when nothing matched.
OptionalNode(S) == IF S = {} THEN {JNull} ELSE {JMap(x) : x \in S}

\* variant: an empty mapping for a missing location node
location_empty_map(loc) == IF loc = JNull THEN JMap(EmptyMap) ELSE loc

\* properties(loc): null when the OPTIONAL MATCH bound no location node
location_of(loc) == IF loc = JNull THEN JNull ELSE loc

\* CASE WHEN plan IS NULL THEN null ELSE {title: ..., url: ..., ...} END
planning_of(plan) ==
  IF plan = JNull THEN JNull
  ELSE JMap([ title        |-> Prop(plan.v, Key("title")),
              url          |-> Prop(plan.v, Key("url")),
              planNo       |-> Prop(plan.v, Key("planNo")),
              lastModified |-> Prop(plan.v, Key("lastModified")) ])

\* coalesce(parent, n) AS mainBuilding
main_building(n, parent) == IF parent = NoNode THEN n ELSE parent

RowsFor(n, parent) ==
  LET mainBuilding == main_building(n, parent)
  IN  { [ found            |-> TRUE,
          propsMain        |-> JMap(store.props[mainBuilding]),
          propsPart        |-> props_part(n, parent),
          bcName           |-> bcName,
          roleName         |-> roleName,
          structuralSystem |-> structuralSystem,
          location         |-> location_of(loc),
          planning         |-> planning_of(plan),
          materials        |-> JList(materials_of(componentInfo)),
          components       |-> JList(components_of(componentInfo)),
          componentInfo    |-> JList(componentInfo),
          district         |-> district ]
        : bcName \in head_collect(BcNames(mainBuilding)),
          roleName \in head_collect(store.hasRole[mainBuilding]),
          structuralSystem \in head_collect(StructuralNames(mainBuilding)),
          loc \in OptionalNode(store.hasLocation[mainBuilding]),
          plan \in OptionalNode(store.regulatedBy[mainBuilding]),
          district \in head_collect(store.inDistrict[mainBuilding]),
          componentInfo \in ComponentInfos(mainBuilding) }

\* The records the query can yield for $osm_id: one per (n, parent, loc, plan);
\* the unordered heads and collections are any of the values the store may
\* put first.
BuildingRows(osm_id) ==
  UNION {UNION {RowsFor(n, parent) : parent \in OptionalMatch(Parents(n))} : n \in MatchOsm(osm_id)}

\* ----------------------------------------------- get_building: the handler
Digits == {"0", "3"}
SupDigit == "sup2"        \* SUPERSCRIPT TWO: str.isdigit() is true, int() raises ValueError

DigitVal(a) == IF a = "3" THEN 3 ELSE 0

isdigit(s) == s # <<>> /\ \A i \in DOMAIN s : s[i] \in Digits \cup {SupDigit}

IntParses(s) == \A i \in DOMAIN s : s[i] \in Digits

RECURSIVE int(_)
int(s) == IF s = <<>> THEN 0 ELSE int(SubSeq(s, 1, Len(s) - 1)) * 10 + DigitVal(s[Len(s)])

\* s.replace("buildingClass", ""): every occurrence goes, not only the prefix
replace_bc(s) == SelectSeq(s, LAMBDA a : a # BC)

Put(m, k, v) == [x \in DOMAIN m \cup {k} |-> IF x = k THEN v ELSE m[x]]

InternalServerError == [status |-> 500, body |-> [detail |-> <<"Internal Server Error">>]]

NotFound == Ok200([found |-> FALSE])

\* Lines 218-224 when int() does not raise: the buildingClass overlay.
building_class(props, bcName) ==
  LET bc_name == strip(IF bcName = JNull THEN <<>> ELSE bcName.v)
      tail == strip(replace_bc(bc_name))
  IN  IF startswith_bc(bc_name)
      THEN IF isdigit(tail) THEN Put(props, Key(BC), JInt(int(tail)))
           ELSE Put(props, Key(BC), JStr(bc_name))
      ELSE props

\* int(tail) raises ValueError on line 222
IntRaises(bcName) ==
  LET bc_name == strip(IF bcName = JNull THEN <<>> ELSE bcName.v)
      tail == strip(replace_bc(bc_name))
  IN  startswith_bc(bc_name) /\ isdigit(tail) /\ ~IntParses(tail)

overlay(props, key, value) == IF Truthy(value) THEN Put(props, key, value) ELSE props

\* r.get(...) or []
or_empty(list) == IF list = JNull \/ list.v = <<>> THEN JList(<<>>) ELSE list

\* variant: without the test of propsMain
found_always(rec) == rec # NoRecord

\* not (not rec or not rec.get("result") or not rec["result"].get("propsMain"))
found(rec) == rec # NoRecord /\ rec.propsMain # JNull /\ rec.propsMain.v # EmptyMap

\* The response of get_building for one outcome of _run_single.
get_building_response(out) ==
  IF out.raised THEN out.rec
  ELSE IF ~found(out.rec) THEN NotFound
  ELSE IF IntRaises(out.rec.bcName) THEN InternalServerError
  ELSE LET r == out.rec
           props == overlay(overlay(building_class(r.propsMain.v, r.bcName),
                                    Key("buildingType"), r.roleName),
                            Key("structuralSystem"), r.structuralSystem)
       IN  Ok200([ found          |-> TRUE,
                   properties     |-> props,
                   partProperties |-> r.propsPart,
                   location       |-> r.location,
                   planning       |-> r.planning,
                   materials      |-> or_empty(r.materials),
                   components     |-> or_empty(r.components),
                   componentInfo  |-> or_empty(r.componentInfo),
                   district       |-> r.district ])

\* Every endpoint records its request, the executor's outcome and its
\* response, and shifts the previous pair.
Respond(request, outcome, response) ==
  /\ req' = request
  /\ exec' = outcome
  /\ resp' = response
  /\ prevReq' = req
  /\ prevResp' = resp
  /\ UNCHANGED store

get_building(osm_id) ==
  \E out \in run_single(BuildingRows(osm_id)) :
    Respond([op |-> "get_building", osm_id |-> osm_id], out.exec, get_building_response(out))

\* ------------------------------------------- stores for the building detail
Labels == {"dice_Building", "dice_BuildingUnit", "Other"}

N2Named == (OsmKey :> Str("o2")) @@ (Key("name") :> Str("Haus"))
N2Classed == N2Named @@ (Key(BC) :> Str("old"))
N2SameOsm == (OsmKey :> Str("o1")) @@ (Key("name") :> Str("Haus"))

LocPlain == Key("lat") :> JInt(1)
PlanA == (Key("title") :> Str("B-Plan")) @@ (Key("planNo") :> JInt(3))

\* Resolution: labels, has-part edges between the two nodes (a self edge
\* included), the parent's properties, its location nodes and planning document.
ResolveStores ==
  { [BaseStore EXCEPT !.label = l, !.props["n2"] = p2, !.hasPart = hp,
                      !.hasLocation["n2"] = locs, !.regulatedBy["n2"] = plans]
    : l \in {f \in [Node -> Labels] : f["n2"] # "Other"},
      p2 \in {EmptyMap, N2Named, N2SameOsm},
      hp \in SUBSET {<<"n2", "n1">>, <<"n1", "n1">>},
      locs \in {{}, {EmptyMap}, {EmptyMap, LocPlain}},
      plans \in SUBSET {PlanA} }

TailAtoms == {"3", "0", "X", Space, BC, SupDigit}

\* Names of dicv_Property nodes: the prefix followed by a short tail, a name
\* without the prefix, and a node without a name.
PropertyNames ==
  {JStr(<<BC>> \o t) : t \in SeqsUpTo(TailAtoms, MaxTailLen)} \cup {Str("X"), JNull}

\* Normalization: the Property, Role and Category nodes of the main building.
NormStores ==
  { [BaseStore EXCEPT !.hasProperty["n2"] = {nm}, !.props["n2"] = p2]
    : nm \in PropertyNames, p2 \in {N2Named, N2Classed} }
  \cup
  { [BaseStore EXCEPT !.hasProperty["n2"] = names, !.hasRole["n2"] = roles,
                      !.isClassifiedBy = cl,
                      !.catProps = [c \in Cat |-> IF c = "c1"
                         THEN (Key("Type") :> Str("structural_system")) @@ (Key("name") :> Str("timber"))
                         ELSE (Key("Type") :> ty) @@ (Key("name") :> Str("masonry"))]]
    : names \in SUBSET {JStr(<<BC, "3">>), JStr(<<BC, "X">>)},
      roles \in SUBSET {Str("residential"), Str("office"), JStr(<<>>)},
      cl \in SUBSET {<<"n2", "c1">>, <<"n2", "c2">>},
      ty \in {Str("structural_system"), Str("usage")} }

BoWall == (Key("name") :> Str("wall")) @@ (Key("number") :> JInt(2)) @@ (Key("width_mm") :> JInt(300))
BoById == Key("id") :> Str("w1")
BoRoof == (Key("name") :> Str("roof")) @@ (Key("uuid") :> Str("u2"))

\* Aggregation: the components of the main building and their materials.
AggStores ==
  { [BaseStore EXCEPT !.hasPart = unit \cup owned, !.hasMaterial = hm,
                      !.boProps = [b \in BObj |-> IF b = "bo1" THEN bo1 ELSE BoRoof],
                      !.matProps = [m \in Mat |-> IF m = "m1" THEN Key("name") :> Str("Steel") ELSE m2]]
    : unit \in SUBSET {<<"n2", "n1">>},
      owned \in SUBSET {<<"n2", "bo1">>, <<"n2", "bo2">>},
      hm \in SUBSET {<<"bo1", "m1">>, <<"bo1", "m2">>, <<"bo2", "m1">>},
      bo1 \in {BoWall, BoById, EmptyMap},
      m2 \in {Key("name") :> Str("Wood"), Key("name") :> Str("Steel"), Key("id") :> Str("m-2")} }

\* Districts of the main building.
DistrictStores ==
  { [BaseStore EXCEPT !.inDistrict["n2"] = ds] : ds \in SUBSET {Str("A"), Str("B"), JNull} }

BuildingStores == ResolveStores \cup NormStores \cup AggStores \cup DistrictStores

NoReq == [op |-> "none"]
NoResp == [status |-> 0, body |-> [none |-> TRUE]]

InitWith(stores) ==
  /\ store \in stores
  /\ req = NoReq
  /\ exec = <<>>
  /\ resp = NoResp
  /\ prevReq = NoReq
  /\ prevResp = NoResp

InitBuilding == InitWith(BuildingStores)

NextBuilding == \E osm_id \in OsmIds : get_building(osm_id)

SpecBuilding == InitBuilding /\ [][NextBuilding]_vars

\* ------------------------------------------------ claims: building detail
Answered == exec = <<ExecOk>>

IsBuildingCall == req.op = "get_building" /\ Answered
IsFound == IsBuildingCall /\ resp.status = 200 /\ resp.body.found

OverlayKeys == {Key(BC), Key("buildingType"), Key("structuralSystem")}

\* p is raw with nothing removed and only the three overlay keys added or overwritten
BuiltFrom(p, raw) ==
  /\ DOMAIN raw \subseteq DOMAIN p
  /\ DOMAIN p \subseteq DOMAIN raw \cup OverlayKeys
  /\ \A k \in DOMAIN raw \ OverlayKeys : p[k] = raw[k]

\* the main buildings the store offers for the requested identifier
Resolutions(osm_id) ==
  {<<n, parent>> \in Node \X (Node \cup {NoNode}) :
     /\ store.label[n] \in {"dice_Building", "dice_BuildingUnit"}
     /\ OsmKey \in DOMAIN store.props[n] /\ store.props[n][OsmKey] = Str(osm_id)
     /\ IF parent = NoNode
        THEN ~\E p \in Node : <<p, n>> \in store.hasPart /\ store.label[p] = "dice_Building"
        ELSE <<parent, n>> \in store.hasPart /\ store.label[parent] = "dice_Building"}

MainOf(res) == IF res[2] = NoNode THEN res[1] ELSE res[2]

\* C1: when the store holds no Building/BuildingUnit for the identifier, or
\* every main building it resolves to has an empty property mapping, and the
\* executor answers, get_building returns exactly {found: false}.
C1_NotFoundExact ==
  (IsBuildingCall /\ \A res \in Resolutions(req.osm_id) : store.props[MainOf(res)] = EmptyMap)
    => (resp.status = 200 /\ resp.body = [found |-> FALSE] /\ DOMAIN resp.body = {"found"})

NoRecordCase(r, rs) ==
  r.op = "get_building" /\ Resolutions(r.osm_id) = {} /\ rs = NotFound

EmptyPropsCase(r, rs) ==
  /\ r.op = "get_building" /\ Resolutions(r.osm_id) # {}
  /\ \A res \in Resolutions(r.osm_id) : store.props[MainOf(res)] = EmptyMap
  /\ rs = NotFound

\* both cases of C1 in one run: an absent identifier after a parent with no properties
C1_Witness == Answered /\ NoRecordCase(req, resp) /\ EmptyPropsCase(prevReq, prevResp)

\* C2 as stated: partProperties is null exactly when the entity has no parent
\* (properties then being its own normalized mapping); with a parent,
\* properties is built from the parent's mapping and partProperties is the
\* entity's own raw mapping.
C2_Original ==
  IsFound =>
    \E res \in Resolutions(req.osm_id) :
      IF res[2] = NoNode
      THEN resp.body.partProperties = JNull /\ BuiltFrom(resp.body.properties, store.props[res[1]])
      ELSE /\ resp.body.partProperties = JMap(store.props[res[1]])
           /\ BuiltFrom(resp.body.properties, store.props[res[2]])

\* C2 amended: partProperties is null exactly when the entity is its own main
\* building: it has no parent, or its has-part parent is the entity itself.
C2_OwnMain ==
  IsFound =>
    \E res \in Resolutions(req.osm_id) :
      IF res[2] = NoNode \/ res[2] = res[1]
      THEN resp.body.partProperties = JNull /\ BuiltFrom(resp.body.properties, store.props[res[1]])
      ELSE /\ resp.body.partProperties = JMap(store.props[res[1]])
           /\ BuiltFrom(resp.body.properties, store.props[res[2]])

\* an entity under a parent whose properties differ from its own, and an
\* entity that is its own has-part parent, both answered
C2_Witness ==
  /\ IsFound /\ resp.body.partProperties # JNull
  /\ resp.body.partProperties.v # resp.body.properties
  /\ prevReq.op = "get_building" /\ prevResp.status = 200 /\ prevResp.body.found
  /\ prevResp.body.partProperties = JNull
  /\ \A res \in Resolutions(prevReq.osm_id) : res[2] # NoNode

\* the Property names of a main building that begin with the prefix
PrefixedNames(main) ==
  {nm \in store.hasProperty[main] : nm # JNull /\ nm.v # <<>> /\ Head(nm.v) = BC}

AllDecimal(s) == s # <<>> /\ \A i \in DOMAIN s : s[i] \in Digits

\* what C3 says of a name: the prefix stripped, the remainder as an integer
\* when it is all digits, the full name unchanged otherwise
ClaimedClass(nm) == IF AllDecimal(Tail(nm.v)) THEN JInt(int(Tail(nm.v))) ELSE nm

\* C3: for every selected Property name beginning with "buildingClass",
\* properties.buildingClass is the remainder after the prefix as an integer
\* when that remainder is all digits, and the full original name otherwise.
C3_BuildingClass ==
  (IsBuildingCall /\ resp # NotFound) =>
    /\ resp.status = 200
    /\ \E res \in Resolutions(req.osm_id) :
         \/ PrefixedNames(MainOf(res)) = {}
         \/ /\ Key(BC) \in DOMAIN resp.body.properties
            /\ \E nm \in PrefixedNames(MainOf(res)) :
                 resp.body.properties[Key(BC)] = ClaimedClass(nm)

\* C6 as stated: location is a property mapping, the empty mapping when the
\* main building has no location node; planning is null without a document.
C6_Original ==
  IsFound =>
    \E res \in Resolutions(req.osm_id) :
      /\ resp.body.location.t = "map"
      /\ IF store.hasLocation[MainOf(res)] = {}
         THEN resp.body.location.v = EmptyMap
         ELSE resp.body.location.v \in store.hasLocation[MainOf(res)]
      /\ store.regulatedBy[MainOf(res)] = {} => resp.body.planning = JNull

\* C6 amended: location is the property mapping of a location node of the
\* main building, and null when it has none; planning is null when no
\* planning document is linked.
C6_LocationNullable ==
  IsFound =>
    \E res \in Resolutions(req.osm_id) :
      /\ IF store.hasLocation[MainOf(res)] = {}
         THEN resp.body.location = JNull
         ELSE resp.body.location.t = "map" /\ resp.body.location.v \in store.hasLocation[MainOf(res)]
      /\ store.regulatedBy[MainOf(res)] = {} => resp.body.planning = JNull

\* a building without location node and planning document answered after one
\* with a location node whose property mapping is empty
C6_Witness ==
  /\ IsFound /\ resp.body.location = JNull /\ resp.body.planning = JNull
  /\ prevReq.op = "get_building" /\ prevResp.status = 200 /\ prevResp.body.found
  /\ prevResp.body.location = JMap(EmptyMap)

Owned(main) == {b \in BObj : <<main, b>> \in store.hasPart}

RECURSIVE MaterialsBefore(_, _)
MaterialsBefore(ci, i) == IF i <= 1 THEN 0 ELSE MaterialsBefore(ci, i - 1) + Len(ci[i - 1].materials)

\* C7: components, componentInfo and materials are lists, never null;
\* components holds the componentInfo names in order, materials the
\* componentInfo materials in component order then material order, one
\* componentInfo entry per owned component (none: three empty lists).
C7_DerivedLists ==
  IsFound =>
    LET ci == resp.body.componentInfo
        cs == resp.body.components
        ms == resp.body.materials
    IN  /\ ci.t = "list" /\ cs.t = "list" /\ ms.t = "list"
        /\ Len(cs.v) = Len(ci.v)
        /\ \A i \in DOMAIN ci.v : cs.v[i] = ci.v[i].name
        /\ Len(ms.v) = MaterialsBefore(ci.v, Len(ci.v) + 1)
        /\ \A i \in DOMAIN ci.v : \A j \in DOMAIN ci.v[i].materials :
             ms.v[MaterialsBefore(ci.v, i) + j] = ci.v[i].materials[j]
        /\ \E res \in Resolutions(req.osm_id) : Len(ci.v) = Cardinality(Owned(MainOf(res)))

\* two components with different names and three materials in all, two of
\* them with the same name, answered after a building with no component
C7_Witness ==
  /\ IsFound /\ Len(resp.body.componentInfo.v) = 2 /\ Len(resp.body.materials.v) = 3
  /\ resp.body.components.v[1] # resp.body.components.v[2]
  /\ \E i, j \in 1..3 : i # j /\ resp.body.materials.v[i] = resp.body.materials.v[j]
  /\ prevReq.op = "get_building" /\ prevResp.status = 200 /\ prevResp.body.found
  /\ prevResp.body.componentInfo = JList(<<>>) /\ prevResp.body.components = JList(<<>>)
  /\ prevResp.body.materials = JList(<<>>)

\* C10: two calls with identical parameters that the executor both answers
\* return identical payloads.
C10_Idempotent ==
  (req = prevReq /\ Answered /\ resp.status = 200 /\ prevResp.status = 200)
    => resp = prevResp

\* --------------------------------------------------- Field Selector alone
FieldAtoms == {"a", "c", Comma, Space}

\* cat_fields: absent, or any string of at most MaxFieldLen atoms
FieldStrings == {None} \cup {JStr(x) : x \in SeqsUpTo(FieldAtoms, MaxFieldLen)}

\* property mappings over the keys a, b, c
SmallProps ==
  UNION {[ks -> {JInt(1), JInt(2)}] : ks \in SUBSET {Key("a"), Key("b"), Key("c")}}

\* fields = _parse_fields(s) followed by _pick_props(props, fields), as
\* component_info composes them, applied to the pending arguments
field_selector ==
  LET fields == parse_fields(req.s)
  IN  /\ req.op = "field_selector" /\ resp = NoResp
      /\ resp' = [status |-> 0, body |-> [fields |-> fields, picked |-> pick_props(req.props, fields)]]
      /\ UNCHANGED <<store, req, exec, prevReq, prevResp>>

InitFields ==
  /\ store = BaseStore
  /\ req \in {[op |-> "field_selector", s |-> s, props |-> props] : s \in FieldStrings, props \in SmallProps}
  /\ exec = <<>>
  /\ resp = NoResp
  /\ prevReq = NoReq
  /\ prevResp = NoResp

NextFields == field_selector

SpecFields == InitFields /\ [][NextFields]_vars

\* the positions just before each comma-separated piece of str
Cuts(str) == {0} \cup {i \in 1..Len(str) : str[i] = Comma}
PieceEnd(str, c) ==
  LET later == {d \in Cuts(str) \cup {Len(str) + 1} : d > c}
  IN  CHOOSE d \in later : \A e \in later : d <= e
Inked(str, c) == {i \in (c + 1)..(PieceEnd(str, c) - 1) : str[i] # Space}
Lowest(S) == CHOOSE x \in S : \A y \in S : x <= y
Highest(S) == CHOOSE x \in S : \A y \in S : x >= y

\* C4: _parse_fields yields the trimmed, non-empty comma-separated items in
\* the given order; _pick_props yields the empty mapping for an empty field
\* list and otherwise exactly the entries of props whose keys are requested,
\* values unchanged, requested keys that props lacks being omitted.
C4_FieldSelector ==
  (req.op = "field_selector" /\ resp # NoResp) =>
    LET str == IF req.s = None THEN <<>> ELSE req.s.v
        kept == {c \in Cuts(str) : Inked(str, c) # {}}
        fields == resp.body.fields
        picked == resp.body.picked
    IN  /\ Len(fields) = Cardinality(kept)
        /\ \A c \in kept :
             fields[Cardinality({d \in kept : d <= c})]
               = SubSeq(str, Lowest(Inked(str, c)), Highest(Inked(str, c)))
        /\ fields = <<>> => picked = EmptyMap
        /\ DOMAIN picked = {k \in DOMAIN req.props : \E i \in DOMAIN fields : fields[i] = k}
        /\ \A k \in DOMAIN picked : picked[k] = req.props[k]

\* fields "a,c" on {a:1, b:2} yields {a:1}
C4_Witness ==
  /\ req.op = "field_selector" /\ resp # NoResp /\ req.s = JStr(<<"a", Comma, "c">>)
  /\ req.props = (Key("a") :> JInt(1)) @@ (Key("b") :> JInt(2))
  /\ resp.body.fields = <<Key("a"), Key("c")>>
  /\ resp.body.picked = (Key("a") :> JInt(1))

\* --------------------------------------------------------- component_info
\* ORDER BY building: the rank of a display name in ascending order, null last
NameRank(name) == IF name = Str("Haus") THEN 1 ELSE IF name = Str("Turm") THEN 2 ELSE 3

\* (b)-[:dicer_hasPart]->(bo) with b a Building or BuildingUnit and the
\* component's display name equal to $name, resolved to <<mainBuilding, bo>>
ComponentOwners(name) ==
  UNION {{<<main_building(b, parent), bo>> : parent \in OptionalMatch(Parents(b))}
           : <<b, bo>> \in {x \in Node \X BObj : /\ x \in store.hasPart /\ Labelled(x[1])
                                                 /\ BoName(x[2]) = name}}

\* {name: cc.name, props: properties(cc)}
category_entry(c) == [name |-> Prop(store.catProps[c], Key("name")), props |-> JMap(store.catProps[c])]

\* The rows one <<mainBuilding, bo>> group can yield: the collected materials
\* and categories come in any order, the three category lists in the same one.
ComponentRow(main, bo) ==
  { [ building   |-> coalesce3(Prop(store.props[main], Key("name")),
                               Prop(store.props[main], Key("buildingName")),
                               Prop(store.props[main], Key("osm_name"))),
      building_id |-> Prop(store.props[main], Key("building_id")),
      osm_id     |-> Prop(store.props[main], OsmKey),
      number     |-> coalesce2(Prop(store.boProps[bo], Key("number")), JInt(0)),
      width_mm   |-> Prop(store.boProps[bo], Key("width_mm")),
      length_mm  |-> Prop(store.boProps[bo], Key("length_mm")),
      height_mm  |-> Prop(store.boProps[bo], Key("height_mm")),
      materials  |-> JList(ms),
      categories |-> JList([i \in DOMAIN cs |-> Prop(store.catProps[cs[i]], Key("name"))]),
      categoryPropsRaw |-> JList([i \in DOMAIN cs |-> category_entry(cs[i])]) ]
    : ms \in MaterialLists(bo),
      cs \in Orderings({c \in Cat : <<bo, c>> \in store.boCats}) }

\* The row lists the query can yield: one row per <<mainBuilding, bo>>,
\* ascending by building display name, ties in any order.
ComponentRowLists(name) ==
  LET owners == ComponentOwners(name)
      all == UNION {ComponentRow(g[1], g[2]) : g \in owners}
  IN  UNION {{f \in [1..Len(o) -> all] :
                /\ \A i \in 1..Len(o) : f[i] \in ComponentRow(o[i][1], o[i][2])
                /\ \A i, j \in 1..Len(o) : i < j => NameRank(f[i].building) <= NameRank(f[j].building)}
               : o \in Orderings(owners)}

\* payload = {"name": item["name"]}; payload.update(_pick_props(item.get("props") or {}, fields))
payload_of(item, fields) ==
  LET picked == pick_props(item.props.v, fields)
  IN  [k \in {Key("name")} \cup DOMAIN picked |-> IF k \in DOMAIN picked THEN picked[k] ELSE item.name]

\* variant: nameless entries are kept
keeps_all(item) == TRUE

\* not (not item or not item.get("name"))
keeps(item) == Truthy(item.name)

\* lines 284-290: one payload per raw entry that has a name
cat_props_of(raw, fields) ==
  LET named == SelectSeq(raw, keeps)
  IN  [i \in DOMAIN named |-> payload_of(named[i], fields)]

component_record(r, fields) ==
  [ building    |-> r.building,
    building_id |-> r.building_id,
    osm_id      |-> r.osm_id,
    number      |-> IF Truthy(r.number) THEN r.number ELSE JInt(0),
    materials   |-> or_empty(r.materials),
    categories  |-> or_empty(r.categories),
    categoryProps |-> IF fields # <<>> THEN JList(cat_props_of(or_empty(r.categoryPropsRaw).v, fields))
                      ELSE JList(<<>>),
    width_mm    |-> r.width_mm,
    length_mm   |-> r.length_mm,
    height_mm   |-> r.height_mm ]

component_info_response(out, fields) ==
  IF out.raised THEN out.rec
  ELSE Ok200([i \in DOMAIN out.rec |-> component_record(out.rec[i], fields)])

component_info(name, cat_fields) ==
  LET fields == parse_fields(cat_fields)
  IN  \E out \in run_list(ComponentRowLists(name)) :
        Respond([op |-> "component_info", name |-> name, cat_fields |-> cat_fields],
                out.exec, component_info_response(out, fields))

CatExt == (Key("name") :> Str("ext")) @@ (Key("a") :> JInt(1)) @@ (Key("b") :> JInt(2))
CatLoad == (Key("name") :> Str("load")) @@ (Key("a") :> JInt(2)) @@ (Key("c") :> JInt(1))
CatNameless == Key("a") :> JInt(2)
CatBlank == (Key("name") :> JStr(<<>>)) @@ (Key("a") :> JInt(2))
CatSameName == (Key("name") :> Str("ext")) @@ (Key("c") :> JInt(2))

\* Components named "wall" under one or two owners, with up to two categories,
\* the second of them named, nameless, blank-named or named like the first.
ComponentStores ==
  { [BaseStore EXCEPT !.hasPart = {<<"n2", "n1">>, <<"n2", "bo1">>} \cup owned,
                      !.props["n1"] = @ @@ (Key("name") :> Str("Turm")),
                      !.boProps = [b \in BObj |-> IF b = "bo1" THEN BoWall ELSE Key("uuid") :> Str("wall")],
                      !.hasMaterial = {<<"bo1", "m1">>},
                      !.matProps = [m \in Mat |-> Key("name") :> Str("Steel")],
                      !.boCats = bc,
                      !.catProps = [c \in Cat |-> IF c = "c1" THEN CatExt ELSE c2]]
    : owned \in SUBSET {<<"n1", "bo2">>},
      bc \in SUBSET {<<"bo1", "c1">>, <<"bo1", "c2">>},
      c2 \in {CatLoad, CatNameless, CatBlank, CatSameName} }

ComponentNames == {Str("wall"), Str("roof")}

CatFieldInputs ==
  {None, JStr(<<Space, Comma>>), JStr(<<"a", Comma, "c">>), JStr(<<"name", Comma, Space, "b">>)}

InitComponent == InitWith(ComponentStores)

NextComponent == \E name \in ComponentNames, cat_fields \in CatFieldInputs : component_info(name, cat_fields)

SpecComponent == InitComponent /\ [][NextComponent]_vars

IsComponentAnswer == req.op = "component_info" /\ Answered /\ resp.status = 200

\* e is {name, <the requested properties that category c has>}
IsEntryOf(e, c, fields) ==
  /\ DOMAIN e = {Key("name")} \cup {k \in DOMAIN store.catProps[c] : \E i \in DOMAIN fields : fields[i] = k}
  /\ e[Key("name")] = Prop(store.catProps[c], Key("name"))
  /\ \A k \in DOMAIN e \ {Key("name")} : e[k] = store.catProps[c][k]

\* the orders in which the categories of a component named name can be listed
CategoryOrders(name) ==
  UNION {Orderings({c \in Cat : <<bo, c>> \in store.boCats})
           : bo \in {b \in BObj : coalesce3(Prop(store.boProps[b], Key("name")),
                                            Prop(store.boProps[b], Key("id")),
                                            Prop(store.boProps[b], Key("uuid"))) = name}}

NamesOf(cs) == [i \in DOMAIN cs |-> Prop(store.catProps[cs[i]], Key("name"))]

\* C8 as stated: categoryProps is empty when no field was requested, and
\* otherwise holds one {name, <selected properties>} entry for each element
\* of the record's categories list.
C8_Original ==
  IsComponentAnswer =>
    \A n \in DOMAIN resp.body :
      LET rec == resp.body[n]
          fields == parse_fields(req.cat_fields)
      IN  IF fields = <<>> THEN rec.categoryProps = JList(<<>>)
          ELSE \E cs \in CategoryOrders(req.name) :
                 /\ rec.categories.v = NamesOf(cs)
                 /\ Len(rec.categoryProps.v) = Len(cs)
                 /\ \A i \in DOMAIN cs : IsEntryOf(rec.categoryProps.v[i], cs[i], fields)

HasName(c) ==
  /\ Key("name") \in DOMAIN store.catProps[c]
  /\ store.catProps[c][Key("name")] \notin {JNull, JStr(<<>>)}

\* C8 amended: categoryProps is empty when no field was requested, and
\* otherwise holds one {name, <selected properties>} entry for each category
\* of the component that has a non-empty name, in the order of the
\* categories list; a category without a name has no entry.
C8_NamedCategories ==
  IsComponentAnswer =>
    \A n \in DOMAIN resp.body :
      LET rec == resp.body[n]
          fields == parse_fields(req.cat_fields)
      IN  IF fields = <<>> THEN rec.categoryProps = JList(<<>>)
          ELSE \E cs \in CategoryOrders(req.name) :
                 LET named == SelectSeq(cs, HasName)
                 IN  /\ rec.categories.v = NamesOf(cs)
                     /\ Len(rec.categoryProps.v) = Len(named)
                     /\ \A i \in DOMAIN named : IsEntryOf(rec.categoryProps.v[i], named[i], fields)

\* fields "a,c" on a component with a named and a nameless category: two
\* categories, one entry {name, a}; after the same lookup without fields
C8_Witness ==
  /\ IsComponentAnswer /\ req.cat_fields = JStr(<<"a", Comma, "c">>)
  /\ \E n \in DOMAIN resp.body :
       /\ Len(resp.body[n].categories.v) = 2
       /\ \E i \in 1..2 : resp.body[n].categories.v[i] = JNull
       /\ resp.body[n].categoryProps.v = << (Key("name") :> Str("ext")) @@ (Key("a") :> JInt(1)) >>
  /\ prevReq.op = "component_info" /\ prevReq.name = req.name /\ prevReq.cat_fields = None
  /\ prevResp.status = 200 /\ Len(prevResp.body) > 0
  /\ \A n \in DOMAIN prevResp.body : prevResp.body[n].categoryProps = JList(<<>>)

\* -------------------------------------------------------- material volumes
RECURSIVE SumValues(_)
SumValues(Q) ==
  IF Q = {} THEN 0
  ELSE LET q == CHOOSE x \in Q : TRUE IN q.value_m3.v + SumValues(Q \ {q})

\* coalesce(m.name, q.material_id) AS material
MaterialKey(q) == coalesce2(Prop(store.matProps[q.m], Key("name")), q.material_id)

\* q.type = 'Volume' AND q.value_m3 IS NOT NULL, and for the per-building
\* variant q.building_id = $building_id (None: the global variant)
qualifies(q, building_id) ==
  /\ q.type = Str("Volume")
  /\ q.value_m3 # JNull
  /\ building_id = None \/ q.building_id = building_id

\* RETURN material, sum(q.value_m3) AS volume_m3: one row per material key
VolumeRows(building_id) ==
  LET Q == {q \in store.qprops : qualifies(q, building_id)}
  IN  {[material |-> k, volume_m3 |-> JInt(SumValues({q \in Q : MaterialKey(q) = k}))]
         : k \in {MaterialKey(q) : q \in Q}}

\* variant: ORDER BY volume_m3 ASC
order_by_volume_asc(rows) ==
  {o \in Orderings(rows) : \A i, j \in DOMAIN o : i < j => o[i].volume_m3.v <= o[j].volume_m3.v}

\* ORDER BY volume_m3 DESC: rows with equal sums come in any order
order_by_volume_desc(rows) ==
  {o \in Orderings(rows) : \A i, j \in DOMAIN o : i < j => o[i].volume_m3.v >= o[j].volume_m3.v}

volume_response(out) ==
  IF out.raised THEN out.rec
  ELSE Ok200([i \in DOMAIN out.rec |->
                [material |-> out.rec[i].material, volume_m3 |-> out.rec[i].volume_m3]])

material_volume_all ==
  \E out \in run_list(order_by_volume_desc(VolumeRows(None))) :
    Respond([op |-> "material_volume_all"], out.exec, volume_response(out))

material_volume_building(building_id) ==
  \E out \in run_list(order_by_volume_desc(VolumeRows(Str(building_id)))) :
    Respond([op |-> "material_volume_building", building_id |-> building_id],
            out.exec, volume_response(out))

QProp(id, m, type, value, building_id) ==
  [id |-> id, m |-> m, type |-> Str(type), value_m3 |-> value, building_id |-> Str(building_id),
   material_id |-> Str(m)]

Volumes == {JInt(v) : v \in 1..MaxVolume}

\* Up to two quantitative properties on the first material and one on the
\* second, which is named, unnamed, or named like the first.
VolumeStores ==
  { [BaseStore EXCEPT !.qprops = {QProp("q1", "m1", "Volume", v1, "b1")} \cup q2 \cup q3,
                      !.matProps = [m \in Mat |-> IF m = "m1" THEN Key("name") :> Str("Steel") ELSE m2]]
    : v1 \in Volumes,
      q2 \in {{}, {QProp("q2", "m1", "Mass", JInt(1), "b1")}}
             \cup {{QProp("q2", "m1", "Volume", v, b)} : v \in Volumes \cup {JNull}, b \in BuildingIds},
      q3 \in {{}} \cup {{QProp("q3", "m2", "Volume", v, b)} : v \in Volumes, b \in BuildingIds},
      m2 \in {Key("name") :> Str("Wood"), EmptyMap, Key("name") :> Str("Steel")} }

InitVolume == InitWith(VolumeStores)

NextVolume ==
  \/ material_volume_all
  \/ \E building_id \in BuildingIds : material_volume_building(building_id)

SpecVolume == InitVolume /\ [][NextVolume]_vars

IsVolumeAnswer ==
  req.op \in {"material_volume_all", "material_volume_building"} /\ Answered /\ resp.status = 200

\* the Volume-typed quantitative properties with a value that the request counts
Counted ==
  {q \in store.qprops :
     /\ q.type = Str("Volume") /\ q.value_m3 # JNull
     /\ req.op = "material_volume_building" => q.building_id = Str(req.building_id)}

DisplayName(q) ==
  IF Key("name") \in DOMAIN store.matProps[q.m] THEN store.matProps[q.m][Key("name")]
  ELSE q.material_id

\* one record per display name with a counted property, its volume the sum
\* of the counted values under that name
SumsPerMaterial ==
  /\ Len(resp.body) = Cardinality({DisplayName(q) : q \in Counted})
  /\ \A q \in Counted : \E i \in DOMAIN resp.body : resp.body[i].material = DisplayName(q)
  /\ \A i \in DOMAIN resp.body :
       resp.body[i].volume_m3 = JInt(SumValues({q \in Counted : DisplayName(q) = resp.body[i].material}))

\* C9 as stated: one record per material display name with the summed
\* Volume values, materials without a qualifying property absent, the
\* records in strictly descending order of summed volume.
C9_Original ==
  IsVolumeAnswer =>
    /\ SumsPerMaterial
    /\ \A i, j \in DOMAIN resp.body : i < j => resp.body[i].volume_m3.v > resp.body[j].volume_m3.v

\* C9 amended: the same, the records in descending order of summed volume
\* with equal sums allowed (no record has a larger sum than one before it).
C9_Descending ==
  IsVolumeAnswer =>
    /\ SumsPerMaterial
    /\ \A i, j \in DOMAIN resp.body : i < j => resp.body[i].volume_m3.v >= resp.body[j].volume_m3.v

\* Steel 2 + 1 before Wood 2 over all buildings, after a per-building sum
\* that leaves Wood out
C9_Witness ==
  /\ IsVolumeAnswer /\ req.op = "material_volume_all"
  /\ resp.body = << [material |-> Str("Steel"), volume_m3 |-> JInt(3)],
                    [material |-> Str("Wood"), volume_m3 |-> JInt(2)] >>
  /\ prevReq.op = "material_volume_building" /\ prevResp.status = 200
  /\ Len(prevResp.body) = 1 /\ prevResp.body[1].material = Str("Steel")

\* ------------------------------------------------- the remaining endpoints
\* ping: no query is sent
ping ==
  /\ req' = [op |-> "ping"]
  /\ exec' = <<>>
  /\ resp' = Ok200([status |-> "ok"])
  /\ prevReq' = req
  /\ prevResp' = resp
  /\ UNCHANGED store

\* the inline try of the two health endpoints: one round trip, the value of
\* its single record or the exception caught on lines 117 and 127
health_run(value) ==
  {[exec |-> <<ExecOk>>, raised |-> FALSE, rec |-> value]}
  \cup {[exec |-> <<e>>, raised |-> TRUE, rec |-> e] : e \in Failures}

neo4j_health ==
  \E out \in health_run(JInt(1)) :
    /\ req' = [op |-> "neo4j_health"]
    /\ exec' = out.exec
    /\ resp' = IF out.raised THEN Ok200([ok |-> FALSE, neo4j |-> FALSE, error |-> StrOf(out.rec)])
               ELSE Ok200([ok |-> TRUE, neo4j |-> TRUE, result |-> out.rec])
    /\ prevReq' = req
    /\ prevResp' = resp
    /\ UNCHANGED store

RECURSIVE SumOver(_, _)
SumOver(f, S) ==
  IF S = {} THEN 0 ELSE LET x == CHOOSE y \in S : TRUE IN Cardinality(f[x]) + SumOver(f, S \ {x})

\* MATCH (n) RETURN count(n): every node of the store (nodes that differ in
\* nothing the endpoints read count once)
NodeCount ==
  Cardinality(Node) + Cardinality(BObj) + Cardinality(Mat) + Cardinality(Cat)
  + Cardinality(store.qprops) + SumOver(store.hasProperty, Node) + SumOver(store.hasRole, Node)
  + SumOver(store.hasLocation, Node) + SumOver(store.regulatedBy, Node)
  + SumOver(store.inDistrict, Node)

health_neo4j_count ==
  \E out \in health_run(JInt(NodeCount)) :
    Respond([op |-> "health_neo4j_count"], out.exec,
            IF out.raised THEN Ok200([ok |-> FALSE, error |-> StrOf(out.rec)])
            ELSE Ok200([ok |-> TRUE, nodes |-> out.rec]))

\* RETURN DISTINCT n.osm_id over the Buildings and BuildingUnits that have one
OsmIdRows ==
  Orderings({Prop(store.props[n], OsmKey) : n \in {x \in Node : Labelled(x) /\ Prop(store.props[x], OsmKey) # JNull}})

linked_osm_ids ==
  \E out \in run_list(OsmIdRows) :
    Respond([op |-> "linked_osm_ids"], out.exec,
            IF out.raised THEN out.rec ELSE Ok200([osm_ids |-> SelectSeq(out.rec, Truthy)]))

\* -------------------------------------------------------- the whole service
RichStore ==
  [BaseStore EXCEPT !.hasPart = {<<"n2", "n1">>, <<"n2", "bo1">>},
                    !.boProps["bo1"] = BoWall,
                    !.hasMaterial = {<<"bo1", "m1">>},
                    !.matProps["m1"] = Key("name") :> Str("Steel"),
                    !.boCats = {<<"bo1", "c1">>},
                    !.catProps["c1"] = CatExt,
                    !.hasProperty["n2"] = {JStr(<<BC, "3">>)},
                    !.inDistrict["n2"] = {Str("A")},
                    !.qprops = {QProp("q1", "m1", "Volume", JInt(2), "b1")}]

ApiStores == {BaseStore, RichStore, [RichStore EXCEPT !.props["n1"] = Key("name") :> Str("Turm")]}

Init == InitWith(ApiStores)

Next ==
  \/ ping
  \/ neo4j_health
  \/ health_neo4j_count
  \/ linked_osm_ids
  \/ \E osm_id \in OsmIds : get_building(osm_id)
  \/ \E cat_fields \in {None, JStr(<<"a", Comma, "c">>)} : component_info(Str("wall"), cat_fields)
  \/ material_volume_all
  \/ \E building_id \in BuildingIds : material_volume_building(building_id)

Spec == Init /\ [][Next]_vars

\* --------------------------------------------------------- claims: failures
DataOps ==
  {"linked_osm_ids", "get_building", "component_info", "material_volume_all",
   "material_volume_building"}
HealthOps == {"neo4j_health", "health_neo4j_count"}

Failed == \E i \in DOMAIN exec : exec[i] # ExecOk
FirstFailure == exec[CHOOSE i \in DOMAIN exec : exec[i] # ExecOk]

\* the uniform error: status 503, the upstream message in the detail, and
\* the upstream code when the error has one
Is503For(e) ==
  /\ resp.status = 503
  /\ DOMAIN resp.body = {"detail"}
  /\ \E i \in DOMAIN resp.body.detail : resp.body.detail[i] = e.message
  /\ e.kind = "Neo4jError" => \E i \in DOMAIN resp.body.detail : resp.body.detail[i] = e.code

\* C5 as stated: every endpoint that queries the store answers an executor
\* failure with the 503 error carrying the upstream code and message, after
\* a single round trip.
C5_Original ==
  (req.op \in DataOps \cup HealthOps /\ Failed) => (Len(exec) = 1 /\ Is503For(FirstFailure))

\* C5 amended: the five data endpoints do so; the two health endpoints
\* answer an executor failure with the normal payload {ok: false, error:
\* <message>}; no endpoint sends its query a second time.
C5_DataEndpoints503 ==
  /\ Len(exec) <= 1
  /\ (req.op \in DataOps /\ Failed) => Is503For(FirstFailure)
  /\ (req.op \in HealthOps /\ Failed) =>
       /\ resp.status = 200
       /\ resp.body.ok = FALSE
       /\ resp.body.error = <<FirstFailure.message>>

\* a building lookup failing with a Neo4jError answered 503 with code and
\* message, after a health check that reported the failure in its payload
C5_Witness ==
  /\ req.op = "get_building" /\ exec = <<Neo4jFailure>>
  /\ resp = [status |-> 503,
             body |-> [detail |-> <<"Neo4jError: ", "Neo.TransientError", "| ", "down">>]]
  /\ prevReq.op = "neo4j_health" /\ prevResp.status = 200 /\ prevResp.body.ok = FALSE

====
